---- MODULE Spec2Model ----
(***************************************************************************)
(* Model of pkg/openfaas/cacher.go: the Controller that crawls the        *)
(* function registry, rebuilds the topic -> functions cache and fans out  *)
(* invocations to the functions cached for a topic.                        *)
(*                                                                         *)
(* Strings are sequences of one-character strings, so that strings.Split  *)
(* and fmt.Sprintf("%s.%s") are computed, not assumed.                     *)
(***************************************************************************)
EXTENDS Integers, Sequences, FiniteSets, TLC

\* ------------------------------------------------------------------ bounds
\* Longest namespace list the registry returns from GetNamespaces.
MaxNamespaces == 2
\* Number of crawl cycles (the initial one of Start included).
MaxCycles == 2
\* Number of Invoke calls made by the caller.
MaxInvokes == 2
\* Longest value of the "topic" annotation seen by the split specification.
MaxValueLen == 3

\* ----------------------------------------------------------- string values
Comma == ","
Dot == "."

\* Namespace names the registry may list.
NamespaceNames == { <<"p">>, <<"d">> }
\* Function names the registry may list.
FunctionNames == { <<"f">>, <<"g">> }

\* Values of the "topic" annotation seen by the full crawl specification.
TopicValues ==
  { <<"a">>,
    <<"a", ",", "b">> }

\* Topics a caller passes to Invoke.
InvokeTopics == { <<"a">>, <<"b">> }

\* All sequences over S of length at most n, without repeated elements.
RECURSIVE SeqsUpTo(_, _)
SeqsUpTo(S, n) ==
  IF n = 0 THEN { <<>> }
  ELSE LET shorter == SeqsUpTo(S, n - 1)
       IN shorter \cup { Append(s, x) : s \in { t \in shorter : Len(t) = n - 1 },
                                        x \in S }

Range(s) == { s[k] : k \in 1..Len(s) }
NoRepeats(s) == Cardinality(Range(s)) = Len(s)

\* types.FunctionStatus: Name and the *map[string]string Annotations, the
\* pointer being <<>> when nil and <<m>> when it points at the map m.
FunctionStatus(name, annotations) == [Name |-> name, Annotations |-> annotations]

NilAnnotations == <<>>
OtherAnnotations == << [k \in {"other"} |-> <<"a">>] >>
TopicAnnotations(v) == << [k \in {"topic"} |-> v] >>

\* Lists of distinct namespaces returned by one GetNamespaces call.
NamespaceLists(names) == { s \in SeqsUpTo(names, MaxNamespaces) : NoRepeats(s) }

\* Lists of functions with distinct names returned by one GetFunctions call.
FunctionLists(annotations) ==
  { s \in SeqsUpTo({ FunctionStatus(n, a) : n \in FunctionNames, a \in annotations },
                   Cardinality(FunctionNames)) :
      NoRepeats([k \in 1..Len(s) |-> s[k].Name]) }

\* The registry as the crawl specification sees it: every kind of
\* annotation, and the empty string among the namespace names.
CrawlNamespaceLists == NamespaceLists(NamespaceNames \cup { <<>> })
CrawlFunctionLists ==
  FunctionLists({ NilAnnotations, OtherAnnotations }
                  \cup { TopicAnnotations(v) : v \in TopicValues })

\* The registry as the concurrent specification sees it: a namespace holds
\* f, or f and g, or nothing, and both subscribe to topic "a".
LoopNamespaceLists == NamespaceLists(NamespaceNames)
LoopFunctionLists ==
  LET all == << FunctionStatus(<<"f">>, TopicAnnotations(<<"a">>)),
                FunctionStatus(<<"g">>, TopicAnnotations(<<"a">>)) >>
  IN { SubSeq(all, 1, k) : k \in 0..Len(all) }

\* The registry as the split specification sees it: one namespace, holding
\* one function f whose "topic" annotation is any string of a, b and commas.
SplitValues == SeqsUpTo({ "a", "b", Comma }, MaxValueLen)
SplitNamespaceLists == { << <<"p">> >> }
SplitFunctionLists ==
  { << FunctionStatus(<<"f">>, TopicAnnotations(v)) >> : v \in SplitValues }

\* ------------------------------------------------- TopicMap and its builder
NewFunctionMapBuilder == [t \in {} |-> <<>>]

BuilderAppend(b, topic, id) ==
  IF topic \in DOMAIN b
  THEN [b EXCEPT ![topic] = Append(@, id)]
  ELSE [t \in DOMAIN b \cup {topic} |-> IF t = topic THEN <<id>> ELSE b[t]]

Build(b) == b

GetCachedValues(m, topic) == IF topic \in DOMAIN m THEN m[topic] ELSE <<>>

\* ------------------------------------------------------------ pure helpers
\* strings.Split(s, ","): the pieces between commas, kept verbatim; a string
\* without a comma (the empty string too) is returned as its only piece.
RECURSIVE Split(_)
Split(s) ==
  IF \A k \in 1..Len(s) : s[k] # Comma
  THEN << s >>
  ELSE LET i == CHOOSE k \in 1..Len(s) :
                  /\ s[k] = Comma
                  /\ \A j \in 1..(k - 1) : s[j] # Comma
       IN << SubSeq(s, 1, i - 1) >> \o Split(SubSeq(s, i + 1, Len(s)))

\* extractTopicsFromAnnotations as it would be without the split.
extractTopicsFromAnnotationsUnsplit(fn) ==
  IF fn.Annotations # NilAnnotations
  THEN LET annotations == fn.Annotations[1]
       IN IF "topic" \in DOMAIN annotations
          THEN << annotations["topic"] >>
          ELSE <<>>
  ELSE <<>>

\* extractTopicsFromAnnotations as it would be if empty pieces were dropped.
extractTopicsFromAnnotationsDropsEmpty(fn) ==
  IF fn.Annotations # NilAnnotations
  THEN LET annotations == fn.Annotations[1]
       IN IF "topic" \in DOMAIN annotations
          THEN SelectSeq(Split(annotations["topic"]), LAMBDA piece : piece # <<>>)
          ELSE <<>>
  ELSE <<>>

\* extractTopicsFromAnnotations, lines 126-137.
extractTopicsFromAnnotations(fn) ==
  IF fn.Annotations # NilAnnotations
  THEN LET annotations == fn.Annotations[1]
       IN IF "topic" \in DOMAIN annotations
          THEN Split(annotations["topic"])
          ELSE <<>>
  ELSE <<>>

\* The identifier as it would be if the namespace were always appended.
FunctionIdentifierAlwaysQualified(name, ns) == name \o << Dot >> \o ns

\* The identifier appended for function `name` found in namespace `ns`.
FunctionIdentifier(name, ns) ==
  IF Len(ns) > 0 THEN name \o << Dot >> \o ns ELSE name

\* The Append calls of lines 115-121 for one function: one per topic, in
\* the order of the topics.
TopicAppends(fn, ns) ==
  LET topics == extractTopicsFromAnnotations(fn)
  IN [k \in 1..Len(topics) |->
        [topic |-> topics[k], id |-> FunctionIdentifier(fn.Name, ns)]]

\* The Append calls for one namespace as they would be if the functions
\* were walked from the last to the first.
RECURSIVE FoundAppendsBackwards(_, _)
FoundAppendsBackwards(found, ns) ==
  IF found = <<>> THEN <<>>
  ELSE FoundAppendsBackwards(Tail(found), ns) \o TopicAppends(Head(found), ns)

\* The Append calls of lines 112-122 for the functions found in one
\* namespace, in the order found.
RECURSIVE FoundAppends(_, _)
FoundAppends(found, ns) ==
  IF found = <<>> THEN <<>>
  ELSE TopicAppends(Head(found), ns) \o FoundAppends(Tail(found), ns)

\* The builder after the given Append calls.
RECURSIVE ApplyAppends(_, _)
ApplyAppends(b, appends) ==
  IF appends = <<>> THEN b
  ELSE ApplyAppends(BuilderAppend(b, Head(appends).topic, Head(appends).id), Tail(appends))

\* ---------------------------------------------------- the crawler's answers
\* c.client.HasNamespaceSupport: the value and whether the call failed.
HasNamespaceSupportResults ==
  { [value |-> TRUE, err |-> FALSE],
    [value |-> FALSE, err |-> FALSE],
    [value |-> FALSE, err |-> TRUE] }

\* c.client.GetNamespaces: a list, or an error that may come with a list.
GetNamespacesResults(lists) ==
  { [err |-> FALSE, val |-> l] : l \in lists }
    \cup { [err |-> TRUE, val |-> l] : l \in { <<>>, << <<"p">> >> } }

\* c.client.GetFunctions: a list, or an error that may come with a list.
GetFunctionsResults(lists) ==
  { [err |-> FALSE, val |-> l] : l \in lists }
    \cup { [err |-> TRUE, val |-> l] :
             l \in { <<>>, << FunctionStatus(<<"f">>, TopicAnnotations(<<"a">>)) >> } }

\* c.client.InvokeAsync: TRUE when err == nil.
InvokeAsyncResults == BOOLEAN

\* The counters of cycles and Refresh calls stop at MaxCycles.
Counted(n) == IF n < MaxCycles THEN n + 1 ELSE n

\* ------------------------------------------------------------------- state
VARIABLES
  pc,                   \* where the goroutine running Start / refresh stands
  hasNamespaceSupport,  \* the local of Start handed to every refreshTick
  supportErr,           \* the HasNamespaceSupport call of Start failed
  supportCalls,         \* HasNamespaceSupport calls made
  started,              \* Start has returned
  tickPending,          \* a tick waits in ticker.C
  cancelled,            \* ctx.Done() is closed
  builder,              \* refreshTick's builder
  namespaces,           \* refreshTick's namespaces
  idx,                  \* position of crawlFunctions in namespaces
  cache,                \* the snapshot held by c.cache
  nsCall,               \* this cycle's GetNamespaces call: "none", "ok", "err"
  fnCalls,              \* this cycle's GetFunctions calls and their answers, in order
  appended,             \* this cycle's builder.Append calls, in order
  cycles,               \* refreshTick calls begun
  publishes,            \* c.cache.Refresh calls made
  published,            \* the snapshot the last completed refreshTick handed to Refresh
  invokes,              \* Invoke calls begun
  caller                \* the Invoke call of the caller: its locals, the calls it
                        \* made, the cycle and Refresh counts at its lookup and
                        \* the result of the Invoke before it

vars == << pc, hasNamespaceSupport, supportErr, supportCalls, started, tickPending, cancelled,
           builder, namespaces, idx, cache, nsCall, fnCalls, appended, cycles, publishes,
           published, invokes, caller >>

refreshVars == << pc, hasNamespaceSupport, supportErr, supportCalls, started, tickPending, cancelled,
                  builder, namespaces, idx, cache, nsCall, fnCalls, appended, cycles, publishes,
                  published >>

IdleCaller ==
  [pc |-> "idle", topic |-> <<>>, functions |-> <<>>, i |-> 1,
   calls |-> <<>>, statuses |-> <<>>, result |-> "none",
   at |-> [cycles |-> 0, publishes |-> 0], prev |-> "none"]

Init ==
  /\ pc = "new"
  /\ hasNamespaceSupport = FALSE
  /\ supportErr = FALSE
  /\ supportCalls = 0
  /\ started = FALSE
  /\ tickPending = FALSE
  /\ cancelled = FALSE
  /\ builder = NewFunctionMapBuilder
  /\ namespaces = <<>>
  /\ idx = 1
  /\ cache = NewFunctionMapBuilder
  /\ nsCall = "none"
  /\ fnCalls = <<>>
  /\ appended = <<>>
  /\ cycles = 0
  /\ publishes = 0
  /\ published = NewFunctionMapBuilder
  /\ invokes = 0
  /\ caller = IdleCaller

\* ----------------------------------------------------------------- actions
\* Start as it would be if the initial refreshTick ran in the goroutine too
\* and Start returned at once.
StartReturnsAtOnce ==
  /\ pc = "new"
  /\ \E r \in HasNamespaceSupportResults :
       /\ hasNamespaceSupport' = r.value
       /\ supportErr' = r.err
  /\ supportCalls' = supportCalls + 1
  /\ started' = TRUE
  /\ pc' = "tick"
  /\ UNCHANGED << tickPending, cancelled, builder, namespaces, idx, cache,
                  nsCall, fnCalls, appended, cycles, publishes, published, invokes, caller >>

\* Start as it would be if a failed namespace-support check counted as
\* support.
StartErrorMeansSupport ==
  /\ pc = "new"
  /\ \E r \in HasNamespaceSupportResults :
       /\ hasNamespaceSupport' = (r.value \/ r.err)
       /\ supportErr' = r.err
  /\ supportCalls' = supportCalls + 1
  /\ pc' = "tick"
  /\ UNCHANGED << started, tickPending, cancelled, builder, namespaces, idx, cache,
                  nsCall, fnCalls, appended, cycles, publishes, published, invokes, caller >>

\* Start, lines 44-45: the namespace-support check and the ticker; the
\* initial refreshTick follows.
Start ==
  /\ pc = "new"
  /\ \E r \in HasNamespaceSupportResults :
       /\ hasNamespaceSupport' = r.value
       /\ supportErr' = r.err
  /\ supportCalls' = supportCalls + 1
  /\ pc' = "tick"
  /\ UNCHANGED << started, tickPending, cancelled, builder, namespaces, idx, cache,
                  nsCall, fnCalls, appended, cycles, publishes, published, invokes, caller >>

\* refreshTick as it would be if a failed GetNamespaces kept what the call
\* returned.
refreshTickKeepsNamespaces(lists) ==
  /\ pc = "tick"
  /\ builder' = NewFunctionMapBuilder
  /\ IF hasNamespaceSupport
     THEN \E r \in GetNamespacesResults(lists) :
            /\ namespaces' = r.val
            /\ nsCall' = IF r.err THEN "err" ELSE "ok"
     ELSE /\ namespaces' = << <<>> >>
          /\ nsCall' = "none"
  /\ idx' = 1
  /\ fnCalls' = <<>>
  /\ appended' = <<>>
  /\ cycles' = Counted(cycles)
  /\ pc' = "crawl"
  /\ UNCHANGED << hasNamespaceSupport, supportErr, supportCalls, started, tickPending, cancelled,
                  cache, publishes, published, invokes, caller >>

\* refreshTick as it would be if the builder were kept from cycle to cycle.
refreshTickReusesBuilder(lists) ==
  /\ pc = "tick"
  /\ builder' = builder
  /\ IF hasNamespaceSupport
     THEN \E r \in GetNamespacesResults(lists) :
            /\ namespaces' = IF r.err THEN <<>> ELSE r.val
            /\ nsCall' = IF r.err THEN "err" ELSE "ok"
     ELSE /\ namespaces' = << <<>> >>
          /\ nsCall' = "none"
  /\ idx' = 1
  /\ fnCalls' = <<>>
  /\ appended' = <<>>
  /\ cycles' = Counted(cycles)
  /\ pc' = "crawl"
  /\ UNCHANGED << hasNamespaceSupport, supportErr, supportCalls, started, tickPending, cancelled,
                  cache, publishes, published, invokes, caller >>

\* refreshTick as it would be if the cache were emptied when a cycle begins.
refreshTickClearsCache(lists) ==
  /\ pc = "tick"
  /\ builder' = NewFunctionMapBuilder
  /\ IF hasNamespaceSupport
     THEN \E r \in GetNamespacesResults(lists) :
            /\ namespaces' = IF r.err THEN <<>> ELSE r.val
            /\ nsCall' = IF r.err THEN "err" ELSE "ok"
     ELSE /\ namespaces' = << <<>> >>
          /\ nsCall' = "none"
  /\ idx' = 1
  /\ fnCalls' = <<>>
  /\ appended' = <<>>
  /\ cycles' = Counted(cycles)
  /\ cache' = Build(NewFunctionMapBuilder)
  /\ pc' = "crawl"
  /\ UNCHANGED << hasNamespaceSupport, supportErr, supportCalls, started, tickPending, cancelled,
                  publishes, published, invokes, caller >>

\* refreshTick as it would be if it listed the namespaces whatever the
\* support check said.
refreshTickAlwaysLists(lists) ==
  /\ pc = "tick"
  /\ builder' = NewFunctionMapBuilder
  /\ \E r \in GetNamespacesResults(lists) :
       /\ namespaces' = IF r.err THEN <<>> ELSE r.val
       /\ nsCall' = IF r.err THEN "err" ELSE "ok"
  /\ idx' = 1
  /\ fnCalls' = <<>>
  /\ appended' = <<>>
  /\ cycles' = Counted(cycles)
  /\ pc' = "crawl"
  /\ UNCHANGED << hasNamespaceSupport, supportErr, supportCalls, started, tickPending, cancelled,
                  cache, publishes, published, invokes, caller >>

\* refreshTick, lines 82-95: a fresh builder and the namespaces to crawl.
refreshTick(lists) ==
  /\ pc = "tick"
  /\ builder' = NewFunctionMapBuilder
  /\ IF hasNamespaceSupport
     THEN \E r \in GetNamespacesResults(lists) :
            /\ namespaces' = IF r.err THEN <<>> ELSE r.val
            /\ nsCall' = IF r.err THEN "err" ELSE "ok"
     ELSE /\ namespaces' = << <<>> >>
          /\ nsCall' = "none"
  /\ idx' = 1
  /\ fnCalls' = <<>>
  /\ appended' = <<>>
  /\ cycles' = Counted(cycles)
  /\ pc' = "crawl"
  /\ UNCHANGED << hasNamespaceSupport, supportErr, supportCalls, started, tickPending, cancelled,
                  cache, publishes, published, invokes, caller >>

\* crawlFunctions as it would be if a failed GetFunctions ended the loop.
crawlFunctionsReturnsOnError(lists) ==
  /\ pc = "crawl"
  /\ idx <= Len(namespaces)
  /\ LET ns == namespaces[idx]
     IN \E r \in GetFunctionsResults(lists) :
          LET found == IF r.err THEN <<>> ELSE r.val
          IN /\ builder' = ApplyAppends(builder, FoundAppends(found, ns))
             /\ appended' = appended \o FoundAppends(found, ns)
             /\ fnCalls' = Append(fnCalls, [ns |-> ns, err |-> r.err, val |-> r.val])
             /\ idx' = IF r.err THEN Len(namespaces) + 1 ELSE idx + 1
  /\ UNCHANGED << pc, hasNamespaceSupport, supportErr, supportCalls, started, tickPending, cancelled,
                  namespaces, cache, nsCall, cycles, publishes, published, invokes, caller >>

\* crawlFunctions as it would be if the cache were refreshed inside the loop.
crawlFunctionsRefreshing(lists) ==
  /\ pc = "crawl"
  /\ idx <= Len(namespaces)
  /\ LET ns == namespaces[idx]
     IN \E r \in GetFunctionsResults(lists) :
          LET found == IF r.err THEN <<>> ELSE r.val
          IN /\ builder' = ApplyAppends(builder, FoundAppends(found, ns))
             /\ appended' = appended \o FoundAppends(found, ns)
             /\ fnCalls' = Append(fnCalls, [ns |-> ns, err |-> r.err, val |-> r.val])
  /\ cache' = Build(builder')
  /\ idx' = idx + 1
  /\ UNCHANGED << pc, hasNamespaceSupport, supportErr, supportCalls, started, tickPending, cancelled,
                  namespaces, nsCall, cycles, publishes, published, invokes, caller >>

\* crawlFunctions, lines 105-123: one iteration of the loop over namespaces,
\* the GetFunctions call and the appends for what it found.
crawlFunctions(lists) ==
  /\ pc = "crawl"
  /\ idx <= Len(namespaces)
  /\ LET ns == namespaces[idx]
     IN \E r \in GetFunctionsResults(lists) :
          LET found == IF r.err THEN <<>> ELSE r.val
          IN /\ builder' = ApplyAppends(builder, FoundAppends(found, ns))
             /\ appended' = appended \o FoundAppends(found, ns)
             /\ fnCalls' = Append(fnCalls, [ns |-> ns, err |-> r.err, val |-> r.val])
  /\ idx' = idx + 1
  /\ UNCHANGED << pc, hasNamespaceSupport, supportErr, supportCalls, started, tickPending, cancelled,
                  namespaces, cache, nsCall, cycles, publishes, published, invokes, caller >>

\* refreshTick, lines 100-101, once crawlFunctions has returned: the cache
\* is refreshed with what the builder holds.  The initial refreshTick is
\* followed by the go statement of line 49 and the return of Start.
Refresh ==
  /\ pc = "crawl"
  /\ idx > Len(namespaces)
  /\ cache' = Build(builder)
  /\ publishes' = Counted(publishes)
  /\ published' = Build(builder)
  /\ started' = TRUE
  /\ pc' = "select"
  /\ UNCHANGED << hasNamespaceSupport, supportErr, supportCalls, tickPending, cancelled, builder,
                  namespaces, idx, nsCall, fnCalls, appended, cycles, invokes, caller >>

\* The ticker of line 45 delivers a tick into its one-slot channel, as long
\* as the cycle this tick starts is within the bound.
Tick ==
  /\ pc # "new"
  /\ ~tickPending
  /\ cycles + (IF pc = "tick" THEN 1 ELSE 0) < MaxCycles
  /\ tickPending' = TRUE
  /\ UNCHANGED << pc, hasNamespaceSupport, supportErr, supportCalls, started, cancelled, builder,
                  namespaces, idx, cache, nsCall, fnCalls, appended, cycles, publishes, published,
                  invokes, caller >>

\* The context handed to Start is cancelled.
Cancel ==
  /\ ~cancelled
  /\ cancelled' = TRUE
  /\ UNCHANGED << pc, hasNamespaceSupport, supportErr, supportCalls, started, tickPending, builder,
                  namespaces, idx, cache, nsCall, fnCalls, appended, cycles, publishes, published,
                  invokes, caller >>

\* The tick case as it would be if the loop took a tick while a cycle was
\* still crawling.
refreshOnTickWhileCrawling ==
  /\ pc \in { "select", "crawl" }
  /\ tickPending
  /\ tickPending' = FALSE
  /\ pc' = "tick"
  /\ UNCHANGED << hasNamespaceSupport, supportErr, supportCalls, started, cancelled, builder,
                  namespaces, idx, cache, nsCall, fnCalls, appended, cycles, publishes, published,
                  invokes, caller >>

\* refresh, lines 71-73: the select takes the tick.
refreshOnTick ==
  /\ pc = "select"
  /\ tickPending
  /\ tickPending' = FALSE
  /\ pc' = "tick"
  /\ UNCHANGED << hasNamespaceSupport, supportErr, supportCalls, started, cancelled, builder,
                  namespaces, idx, cache, nsCall, fnCalls, appended, cycles, publishes, published,
                  invokes, caller >>

\* The ticker of line 45 without the bound on the number of cycles: a tick
\* arrives whenever the channel has room, for as long as the program runs.
TickForever ==
  /\ pc # "new"
  /\ ~tickPending
  /\ tickPending' = TRUE
  /\ UNCHANGED << pc, hasNamespaceSupport, supportErr, supportCalls, started, cancelled, builder,
                  namespaces, idx, cache, nsCall, fnCalls, appended, cycles, publishes, published,
                  invokes, caller >>

\* The ctx.Done() case as it would be if its break left only the select and
\* not the labelled loop.
refreshOnDoneBreaksSelect ==
  /\ pc = "select"
  /\ cancelled
  /\ pc' = "select"
  /\ UNCHANGED << hasNamespaceSupport, supportErr, supportCalls, started, tickPending, cancelled,
                  builder, namespaces, idx, cache, nsCall, fnCalls, appended, cycles, publishes,
                  published, invokes, caller >>

\* refresh, lines 74-76: the select takes ctx.Done() and leaves the loop.
refreshOnDone ==
  /\ pc = "select"
  /\ cancelled
  /\ pc' = "stopped"
  /\ UNCHANGED << hasNamespaceSupport, supportErr, supportCalls, started, tickPending, cancelled,
                  builder, namespaces, idx, cache, nsCall, fnCalls, appended, cycles, publishes,
                  published, invokes, caller >>

\* Invoke as it would be if an empty list were reported as an error.
InvokeEmptyIsError(topic) ==
  /\ caller.pc \in { "idle", "returned" }
  /\ invokes < MaxInvokes
  /\ invokes' = invokes + 1
  /\ LET functions == GetCachedValues(cache, topic)
     IN caller' = [pc |-> IF Len(functions) = 0 THEN "returned" ELSE "invoking",
                   topic |-> topic, functions |-> functions, i |-> 1,
                   calls |-> <<>>, statuses |-> <<>>,
                   result |-> IF Len(functions) = 0 THEN "err" ELSE "none",
                   at |-> [cycles |-> cycles, publishes |-> publishes],
                   prev |-> caller.result]
  /\ UNCHANGED refreshVars

\* Invoke as it would be if a call that follows a failed one resumed at the
\* position where the failed one stopped.
InvokeResumes(topic) ==
  /\ caller.pc \in { "idle", "returned" }
  /\ invokes < MaxInvokes
  /\ invokes' = invokes + 1
  /\ LET functions == GetCachedValues(cache, topic)
     IN caller' = [pc |-> IF Len(functions) = 0 THEN "returned" ELSE "invoking",
                   topic |-> topic, functions |-> functions,
                   i |-> IF caller.result = "err" /\ caller.i <= Len(functions)
                         THEN caller.i ELSE 1,
                   calls |-> <<>>, statuses |-> <<>>,
                   result |-> IF Len(functions) = 0 THEN "nil" ELSE "none",
                   at |-> [cycles |-> cycles, publishes |-> publishes],
                   prev |-> caller.result]
  /\ UNCHANGED refreshVars

\* Invoke, lines 54-56 (and 63-64 when the list is empty): the cache lookup.
Invoke(topic) ==
  /\ caller.pc \in { "idle", "returned" }
  /\ invokes < MaxInvokes
  /\ invokes' = invokes + 1
  /\ LET functions == GetCachedValues(cache, topic)
     IN caller' = [pc |-> IF Len(functions) = 0 THEN "returned" ELSE "invoking",
                   topic |-> topic, functions |-> functions, i |-> 1,
                   calls |-> <<>>, statuses |-> <<>>,
                   result |-> IF Len(functions) = 0 THEN "nil" ELSE "none",
                   at |-> [cycles |-> cycles, publishes |-> publishes],
                   prev |-> caller.result]
  /\ UNCHANGED refreshVars

\* The call of line 57 as it would be if the loop walked the list backwards.
InvokeAsyncCallBackwards ==
  /\ caller.pc = "invoking"
  /\ caller' = [caller EXCEPT
                  !.pc = "waiting",
                  !.calls = Append(@, caller.functions[Len(caller.functions) + 1 - caller.i])]
  /\ UNCHANGED << invokes >>
  /\ UNCHANGED refreshVars

\* The call of line 57 as it would be if the list were read from the cache
\* again before every call.
InvokeAsyncCallRereads ==
  /\ caller.pc = "invoking"
  /\ LET functions == GetCachedValues(cache, caller.topic)
     IN caller' = [caller EXCEPT
                     !.pc = "waiting",
                     !.functions = functions,
                     !.calls = Append(@, IF caller.i <= Len(functions)
                                         THEN functions[caller.i]
                                         ELSE caller.functions[caller.i])]
  /\ UNCHANGED << invokes >>
  /\ UNCHANGED refreshVars

\* Invoke, line 57: the InvokeAsync call for the next function is issued.
InvokeAsyncCall ==
  /\ caller.pc = "invoking"
  /\ caller' = [caller EXCEPT !.pc = "waiting",
                              !.calls = Append(@, caller.functions[caller.i])]
  /\ UNCHANGED << invokes >>
  /\ UNCHANGED refreshVars

\* The return of InvokeAsync as it would be if the error were only
\* remembered and the loop went on to the end of the list.
InvokeAsyncReturnKeepsGoing ==
  /\ caller.pc = "waiting"
  /\ \E ok \in InvokeAsyncResults :
       LET failed == ~ok \/ (\E k \in 1..Len(caller.statuses) : ~caller.statuses[k])
       IN caller' = [caller EXCEPT
                       !.statuses = Append(@, ok),
                       !.i = caller.i + 1,
                       !.pc = IF caller.i < Len(caller.functions)
                              THEN "invoking" ELSE "returned",
                       !.result = IF caller.i < Len(caller.functions) THEN "none"
                                  ELSE IF failed THEN "err" ELSE "nil"]
  /\ UNCHANGED << invokes >>
  /\ UNCHANGED refreshVars

\* Invoke, lines 57-64: InvokeAsync returns; an error ends the Invoke, the
\* end of the list ends it with nil.
InvokeAsyncReturn ==
  /\ caller.pc = "waiting"
  /\ \E ok \in InvokeAsyncResults :
       caller' = [caller EXCEPT
                    !.statuses = Append(@, ok),
                    !.i = IF ok THEN caller.i + 1 ELSE caller.i,
                    !.pc = IF ok /\ caller.i < Len(caller.functions)
                           THEN "invoking" ELSE "returned",
                    !.result = IF ~ok THEN "err"
                               ELSE IF caller.i < Len(caller.functions)
                                    THEN "none" ELSE "nil"]
  /\ UNCHANGED << invokes >>
  /\ UNCHANGED refreshVars

Next ==
  \/ Start
  \/ refreshTick(LoopNamespaceLists)
  \/ crawlFunctions(LoopFunctionLists)
  \/ Refresh
  \/ Tick
  \/ Cancel
  \/ refreshOnTick
  \/ refreshOnDone
  \/ \E topic \in InvokeTopics : Invoke(topic)
  \/ InvokeAsyncCall
  \/ InvokeAsyncReturn

Spec == Init /\ [][Next]_vars

\* The controller without callers and with a ticker that never stops.  The
\* crawler's calls return, so each step of a cycle is taken once it can be;
\* a select with both cases ready picks one at random, so the ctx.Done()
\* case is not passed over for ever.
NextLive ==
  \/ Start
  \/ refreshTick(LoopNamespaceLists)
  \/ crawlFunctions(LoopFunctionLists)
  \/ Refresh
  \/ TickForever
  \/ Cancel
  \/ refreshOnTick
  \/ refreshOnDone

SpecLive ==
  /\ Init
  /\ [][NextLive]_vars
  /\ WF_vars(refreshTick(LoopNamespaceLists))
  /\ WF_vars(crawlFunctions(LoopFunctionLists))
  /\ WF_vars(Refresh)
  /\ SF_vars(refreshOnDone)

\* Start alone, up to its return, against the registry of annotation values.
NextSplit ==
  \/ Start
  \/ refreshTick(SplitNamespaceLists)
  \/ crawlFunctions(SplitFunctionLists)
  \/ Refresh

SpecSplit == Init /\ [][NextSplit]_vars

\* Start alone, up to its return, against the full registry.
NextCrawl ==
  \/ Start
  \/ refreshTick(CrawlNamespaceLists)
  \/ crawlFunctions(CrawlFunctionLists)
  \/ Refresh

SpecCrawl == Init /\ [][NextCrawl]_vars

\* ================================================================== claims
\* The index of the first failed InvokeAsync of the caller's Invoke, 0 if none.
FirstFailure ==
  IF \E k \in 1..Len(caller.statuses) : ~caller.statuses[k]
  THEN CHOOSE k \in 1..Len(caller.statuses) :
         /\ ~caller.statuses[k]
         /\ \A j \in 1..(k - 1) : caller.statuses[j]
  ELSE 0

\* C1: when InvokeAsync on the i-th function of the looked-up list is the
\* first to fail, the Invoke has called InvokeAsync exactly on the first i
\* functions, once each and in the list's order, calls no further function,
\* and has returned the error.
C1_FailFast ==
  FirstFailure > 0 =>
    /\ caller.calls = SubSeq(caller.functions, 1, FirstFailure)
    /\ caller.pc = "returned"
    /\ caller.result = "err"

\* The second of three cached functions failed: the third was not called.
C1_Witness ==
  /\ Len(caller.functions) = 3
  /\ caller.statuses = << TRUE, FALSE >>
  /\ caller.calls = SubSeq(caller.functions, 1, 2)
  /\ caller.result = "err"

\* C2: an Invoke on a topic for which the cache holds no function returns
\* nil at once, with no InvokeAsync call issued and none to come.
C2_EmptyTopicSucceeds ==
  [][ (invokes' = invokes + 1 /\ GetCachedValues(cache, caller'.topic) = <<>>) =>
        /\ caller'.pc = "returned"
        /\ caller'.result = "nil"
        /\ caller'.calls = <<>> ]_vars

\* Topic "b" is not a key of a non-empty cache and the Invoke on it returned.
C2_Witness ==
  /\ DOMAIN cache = { <<"a">> }
  /\ caller.topic = <<"b">>
  /\ caller.pc = "returned"
  /\ caller.result = "nil"
  /\ caller.calls = <<>>

\* C3: the calls of an Invoke follow the looked-up list in order, the next
\* call is issued only when every earlier call has returned its status, and
\* when all calls have succeeded the Invoke has called every function of the
\* list exactly once and returns nil.
C3_SequentialInOrder ==
  /\ Len(caller.calls) <= Len(caller.functions)
  /\ caller.calls = SubSeq(caller.functions, 1, Len(caller.calls))
  /\ Len(caller.calls) - Len(caller.statuses) \in { 0, 1 }
  /\ (caller.pc = "waiting") = (Len(caller.calls) = Len(caller.statuses) + 1)
  /\ (caller.pc = "returned" /\ FirstFailure = 0) =>
       /\ caller.calls = caller.functions
       /\ Len(caller.statuses) = Len(caller.functions)
       /\ caller.result = "nil"

\* Three cached functions were called, each after the one before succeeded.
C3_Witness ==
  /\ Len(caller.functions) = 3
  /\ caller.statuses = << TRUE, TRUE, TRUE >>
  /\ caller.calls = caller.functions
  /\ caller.pc = "returned"
  /\ caller.result = "nil"

\* C4: at every step the cache holds the snapshot a completed refreshTick
\* built (the constructor's content before the first one), never the builder
\* of a crawl in progress, and each lookup of Invoke returns the topic's list
\* of that one snapshot.
C4_LookupSeesOnePublishedSnapshot ==
  [][ /\ cache' = published'
      /\ invokes' = invokes + 1 =>
           caller'.functions = GetCachedValues(published, caller'.topic) ]_vars

\* A lookup made while the second crawl has already appended to its builder
\* returned the list of the first snapshot.
C4_Witness ==
  /\ cycles = 2
  /\ pc = "crawl"
  /\ builder # NewFunctionMapBuilder
  /\ builder # cache
  /\ caller.pc = "invoking"
  /\ caller.functions = cache[<<"a">>]
  /\ caller.functions # GetCachedValues(builder, <<"a">>)

\* ------------------------------------------- what a crawl cycle discovered
\* The functions a GetFunctions call reported: none when it failed.
Reported(e) == IF e.err THEN <<>> ELSE e.val

HasTopic(fn) == fn.Annotations # <<>> /\ "topic" \in DOMAIN fn.Annotations[1]
TopicValue(fn) == fn.Annotations[1]["topic"]

\* The entries of a comma-separated value, by the position where each
\* starts: the start of the value and the position after every comma.
EntryStarts(v) == { a \in 1..(Len(v) + 1) : a = 1 \/ v[a - 1] = "," }
EntryAt(v, a) ==
  LET b == CHOOSE e \in (a - 1)..Len(v) :
             /\ e = Len(v) \/ v[e + 1] = ","
             /\ \A k \in a..e : v[k] # ","
  IN [k \in 1..(b - a + 1) |-> v[a + k - 1]]
Entries(v) == { EntryAt(v, a) : a \in EntryStarts(v) }

\* f.ns for a non-empty namespace, f alone otherwise.
Qualified(name, ns) == IF ns = <<>> THEN name ELSE name \o << "." >> \o ns

\* The associations of this cycle: one for each entry a of the topic
\* annotation of the j-th function reported by the k-th GetFunctions call.
Discovered ==
  UNION { UNION { { [k |-> k, j |-> j, a |-> a,
                     topic |-> EntryAt(TopicValue(Reported(fnCalls[k])[j]), a),
                     id |-> Qualified(Reported(fnCalls[k])[j].Name, fnCalls[k].ns)] :
                      a \in IF HasTopic(Reported(fnCalls[k])[j])
                            THEN EntryStarts(TopicValue(Reported(fnCalls[k])[j]))
                            ELSE {} } :
                  j \in 1..Len(Reported(fnCalls[k])) } :
          k \in 1..Len(fnCalls) }

Before(y, x) ==
  \/ y.k < x.k
  \/ y.k = x.k /\ y.j < x.j
  \/ y.k = x.k /\ y.j = x.j /\ y.a < x.a

Count(id, list) == Cardinality({ k \in 1..Len(list) : list[k] = id })

\* C5: the identifiers appended for the functions found in namespace ns are
\* f.ns for each subscribed function f when ns is not empty and f alone when
\* it is empty; without namespace support the only namespace is the empty
\* one and every identifier is a bare function name.
C5_IdentifierConstruction ==
  [][ Len(fnCalls') = Len(fnCalls) + 1 =>
        LET e == fnCalls'[Len(fnCalls')]
            new == SubSeq(appended', Len(appended) + 1, Len(appended'))
            subscribed == { fn \in Range(Reported(e)) : HasTopic(fn) }
        IN /\ { new[k].id : k \in 1..Len(new) } =
                { IF e.ns = <<>> THEN fn.Name ELSE fn.Name \o << "." >> \o e.ns :
                    fn \in subscribed }
           /\ ~hasNamespaceSupport =>
                /\ e.ns = <<>>
                /\ \A k \in 1..Len(new) : new[k].id \in FunctionNames ]_vars

\* With namespace support, f of namespace p was appended as f.p and g of the
\* empty namespace as g.
C5_Witness ==
  /\ hasNamespaceSupport
  /\ namespaces = << <<"p">>, <<>> >>
  /\ appended = << [topic |-> <<"a">>, id |-> <<"f", ".", "p">>],
                   [topic |-> <<"a">>, id |-> <<"g">>] >>

\* C6: the identifier of a crawled function stands in the builder under
\* exactly the topics that are entries of its "topic" annotation; a function
\* without that annotation, or without annotations, stands under no topic.
C6_TopicsOfAnnotation ==
  \A k \in 1..Len(fnCalls) :
    \A j \in 1..Len(Reported(fnCalls[k])) :
      LET fn == Reported(fnCalls[k])[j]
          id == Qualified(fn.Name, fnCalls[k].ns)
          topics == IF HasTopic(fn) THEN Entries(TopicValue(fn)) ELSE {}
      IN \A t \in DOMAIN builder \cup topics :
           (id \in Range(GetCachedValues(builder, t))) <=> (t \in topics)

\* f with topic "a,b" stands under a and b; g without annotations and f of
\* the next namespace with another annotation stand nowhere.
C6_Witness ==
  /\ Len(fnCalls) = 2
  /\ ~fnCalls[1].err
  /\ ~fnCalls[2].err
  /\ fnCalls[1].val = << FunctionStatus(<<"f">>, TopicAnnotations(<<"a", ",", "b">>)),
                         FunctionStatus(<<"g">>, NilAnnotations) >>
  /\ fnCalls[2].val = << FunctionStatus(<<"f">>, OtherAnnotations) >>
  /\ fnCalls[1].ns = <<"p">>
  /\ DOMAIN builder = { <<"a">>, <<"b">> }
  /\ builder[<<"a">>] = << <<"f", ".", "p">> >>
  /\ builder[<<"b">>] = << <<"f", ".", "p">> >>

\* C7: in the snapshot a cycle published, the list of every topic holds the
\* cycle's associations for that topic ordered by the position of the
\* namespace in the list the crawl went through, then by the position of
\* the function in the namespace's list; a topic without association has
\* the empty list.
C7_DiscoveryOrder ==
  pc = "select" =>
    /\ Len(fnCalls) = Len(namespaces)
    /\ \A k \in 1..Len(fnCalls) : fnCalls[k].ns = namespaces[k]
    /\ LET discovered == Discovered
       IN \A t \in DOMAIN cache \cup { x.topic : x \in discovered } \cup { <<"z">> } :
            LET at == { x \in discovered : x.topic = t }
                list == GetCachedValues(cache, t)
            IN /\ Len(list) = Cardinality(at)
               /\ \A x \in at :
                    list[1 + Cardinality({ y \in at : Before(y, x) })] = x.id

\* Namespaces p then d, f on "a" in p and on "a,b" in d.
C7_Witness ==
  /\ pc = "select"
  /\ namespaces = << <<"p">>, <<"d">> >>
  /\ fnCalls[1].val = << FunctionStatus(<<"f">>, TopicAnnotations(<<"a">>)) >>
  /\ fnCalls[2].val = << FunctionStatus(<<"f">>, TopicAnnotations(<<"a", ",", "b">>)) >>
  /\ GetCachedValues(cache, <<"a">>) = << <<"f", ".", "p">>, <<"f", ".", "d">> >>
  /\ GetCachedValues(cache, <<"b">>) = << <<"f", ".", "d">> >>
  /\ GetCachedValues(cache, <<"z">>) = <<>>

\* C8: when the namespace listing of a cycle failed, the cycle crawls no
\* namespace and calls GetFunctions for none, its Refresh is the next step
\* and publishes the empty snapshot, and the loop then waits for the next
\* tick, which starts a new cycle.
C8_NamespaceListingFailure ==
  nsCall = "err" =>
    /\ hasNamespaceSupport
    /\ namespaces = <<>>
    /\ fnCalls = <<>>
    /\ appended = <<>>
    /\ pc \in { "crawl", "select", "tick", "stopped" }
    /\ pc = "crawl" => ENABLED Refresh
    /\ pc # "crawl" =>
         /\ publishes = cycles
         /\ DOMAIN cache = {}
         /\ \A t \in InvokeTopics : GetCachedValues(cache, t) = <<>>
    /\ pc = "stopped" => cancelled
    /\ (pc = "select" /\ tickPending) => ENABLED refreshOnTick

\* The initial cycle's namespace listing failed, its empty snapshot is
\* published and the loop has a tick to take.
C8_Witness ==
  /\ nsCall = "err"
  /\ pc = "select"
  /\ tickPending
  /\ ~cancelled
  /\ publishes = 1
  /\ DOMAIN cache = {}

\* C9: a cycle queries every namespace of its list, in order, whether or not
\* an earlier query failed; a namespace whose query failed has no identifier
\* in the published snapshot, and every association reported for the other
\* namespaces is in it.
C9_FunctionListingFailure ==
  pc = "select" =>
    /\ Len(fnCalls) = Len(namespaces)
    /\ \A k \in 1..Len(fnCalls) :
         /\ fnCalls[k].ns = namespaces[k]
         /\ fnCalls[k].err =>
              \A t \in DOMAIN cache : \A n \in FunctionNames :
                Count(Qualified(n, fnCalls[k].ns), cache[t]) = 0
         /\ ~fnCalls[k].err =>
              \A j \in 1..Len(fnCalls[k].val) :
                HasTopic(fnCalls[k].val[j]) =>
                  \A t \in Entries(TopicValue(fnCalls[k].val[j])) :
                    Count(Qualified(fnCalls[k].val[j].Name, fnCalls[k].ns),
                          GetCachedValues(cache, t)) >= 1

\* The query for p failed although it came with a list, the one for d
\* succeeded: only f.d is published.
C9_Witness ==
  /\ pc = "select"
  /\ namespaces = << <<"p">>, <<"d">> >>
  /\ Len(fnCalls) = 2
  /\ fnCalls[1].err
  /\ fnCalls[1].val # <<>>
  /\ ~fnCalls[2].err
  /\ cache = [t \in { <<"a">> } |-> << <<"f", ".", "d">> >>]

\* C10: every cycle makes exactly one Refresh, at its end, and the snapshot
\* it publishes holds exactly the associations discovered in that cycle,
\* each as often as discovered.
C10_PublishExactlyThisCycle ==
  /\ publishes = IF pc = "crawl" THEN cycles - 1 ELSE cycles
  /\ (pc # "crawl" /\ cycles >= 1) =>
       LET discovered == Discovered
       IN /\ DOMAIN cache = { x.topic : x \in discovered }
          /\ \A t \in DOMAIN cache :
               \A id \in Range(cache[t]) \cup { x.id : x \in discovered } :
                 Count(id, cache[t]) =
                   Cardinality({ x \in discovered : x.topic = t /\ x.id = id })

\* The second cycle found nothing and replaced the snapshot from which the
\* caller had read a non-empty list.
C10_Witness ==
  /\ cycles = 2
  /\ publishes = 2
  /\ pc = "select"
  /\ nsCall # "err"
  /\ DOMAIN cache = {}
  /\ caller.functions # <<>>

\* C11: once the context is cancelled while the refresh loop waits in its
\* select, the loop takes no tick and starts no further crawl cycle, even
\* with a tick pending in the ticker's channel.
C11_NoCycleAfterCancel ==
  [][ (cancelled /\ pc = "select") => pc' # "tick" ]_vars

\* C12: when Start returns, and before the refresh loop waits for its first
\* tick, the initial refreshTick has run to its Refresh; an Invoke that
\* begins after Start returned looks up the snapshot of a completed crawl.
C12_InitialCrawlBeforeReturn ==
  [][ /\ started' => (cycles' >= 1 /\ publishes' >= 1)
      /\ pc' \in { "select", "stopped" } => (started' /\ publishes' >= 1)
      /\ (pc = "crawl" /\ cycles = 1) => ~started
      /\ (invokes' = invokes + 1 /\ started) =>
           /\ caller'.at.publishes >= 1
           /\ caller'.functions = GetCachedValues(published, caller'.topic) ]_vars

\* Start has returned after the one initial cycle and an Invoke begun after
\* that is calling the functions of the initial snapshot.
C12_Witness ==
  /\ started
  /\ cycles = 1
  /\ publishes = 1
  /\ pc = "select"
  /\ caller.at = [cycles |-> 1, publishes |-> 1]
  /\ caller.pc = "invoking"
  /\ caller.functions = GetCachedValues(cache, <<"a">>)

\* C13: no step of Invoke changes the cache or any state of the refresh
\* loop, whatever InvokeAsync returns; an Invoke that follows a failed one
\* looks up the current cache and calls that list from its first entry, all
\* of it when no call fails.
C13_FailureLeavesControllerIntact ==
  [][ /\ caller' # caller => refreshVars' = refreshVars
      /\ (invokes' = invokes + 1 /\ caller.result = "err") =>
           /\ caller'.functions = GetCachedValues(cache, caller'.topic)
           /\ caller'.i = 1
           /\ caller'.calls = <<>>
      /\ (caller.prev = "err" /\ caller'.result = "nil") =>
           caller'.calls = caller'.functions ]_vars

\* An Invoke failed, and the next Invoke has called
\* all the functions of the list and returned nil.
C13_Witness ==
  /\ caller.prev = "err"
  /\ caller.result = "nil"
  /\ Len(caller.functions) >= 2
  /\ caller.calls = caller.functions
  /\ caller.functions = GetCachedValues(cache, caller.topic)
  /\ invokes = 2

C15_CacheKeptDuringCrawl ==
  [][ /\ pc' = "crawl" => (cache' = cache /\ cache' = published')
      /\ (invokes' = invokes + 1 /\ pc = "crawl") =>
           caller'.functions = GetCachedValues(published, caller'.topic) ]_vars

\* The second crawl has had a failed GetFunctions call and holds a builder
\* that differs from the cache; an Invoke begun during this crawl got the
\* list the first cycle published.
C15_Witness ==
  /\ pc = "crawl"
  /\ cycles = 2
  /\ publishes = 1
  /\ \E k \in 1..Len(fnCalls) : fnCalls[k].err
  /\ Build(builder) # cache
  /\ caller.at = [cycles |-> 2, publishes |-> 1]
  /\ caller.topic = <<"a">>
  /\ Len(caller.functions) >= 2
  /\ caller.functions = GetCachedValues(published, <<"a">>)
  /\ caller.functions # GetCachedValues(builder, <<"a">>)

\* C16: HasNamespaceSupport is called once, by Start, and its value never
\* changes afterwards; every cycle, the initial one and the later ones,
\* calls GetNamespaces exactly when that value is true, and when it is false
\* the cycle makes one GetFunctions call, for the empty namespace.
C16_SupportQueriedOnce ==
  [][ /\ supportCalls' = (IF pc' = "new" THEN 0 ELSE 1)
      /\ pc # "new" => hasNamespaceSupport' = hasNamespaceSupport
      /\ cycles' >= 1 => ((nsCall' # "none") <=> hasNamespaceSupport')
      /\ (cycles' >= 1 /\ ~hasNamespaceSupport') =>
           /\ Len(fnCalls') = (IF pc' = "crawl" THEN idx' - 1 ELSE 1)
           /\ Len(fnCalls') <= 1
           /\ \A k \in 1..Len(fnCalls') : fnCalls'[k].ns = <<>> ]_vars

\* Without namespace support the second cycle has finished with its one
\* GetFunctions call, for the empty namespace, and no GetNamespaces call.
C16_Witness ==
  /\ ~hasNamespaceSupport
  /\ ~supportErr
  /\ supportCalls = 1
  /\ cycles = 2
  /\ publishes = 2
  /\ nsCall = "none"
  /\ Len(fnCalls) = 1
  /\ fnCalls[1].ns = <<>>
  /\ pc = "select"

\* C17: once the context is cancelled, a started controller's refresh loop
\* eventually stops, ticks arriving or not; and a Refresh that happens after
\* the cancellation installs what a finished crawl built, all namespaces
\* crawled and every append applied, while no other step touches the cache.
C17_StopsAfterCancel ==
  /\ (cancelled /\ pc # "new") ~> (pc = "stopped")
  /\ [][ (cancelled /\ cache' # cache) =>
           /\ pc = "crawl"
           /\ idx > Len(namespaces)
           /\ Len(fnCalls) = Len(namespaces)
           /\ builder = ApplyAppends(NewFunctionMapBuilder, appended)
           /\ cache' = Build(builder) ]_vars

\* The loop has stopped after a cancellation, with two cycles published and
\* a tick left in the channel.
C17_Witness ==
  /\ cancelled
  /\ pc = "stopped"
  /\ tickPending
  /\ cycles = 2
  /\ publishes = 2
  /\ cache # NewFunctionMapBuilder

\* C18: the cycles begun are never more than one ahead of the Refresh calls
\* made, and they are one ahead exactly while a crawl runs; until Start has
\* returned only the initial cycle exists, and the loop takes a tick only
\* from its select, when every cycle begun has had its Refresh.
C18_OneCycleInFlight ==
  [][ /\ cycles' - publishes' \in { 0, 1 }
      /\ (cycles' - publishes' = 1) <=> (pc' = "crawl")
      /\ ~started' => (cycles' <= 1 /\ publishes' = 0)
      /\ (pc' = "tick" /\ pc # "tick") =>
           \/ pc = "new"
           \/ /\ pc = "select"
              /\ started
              /\ cycles >= 1
              /\ publishes = cycles ]_vars

\* The loop's first cycle is crawling after the initial crawl has published
\* and the loop has taken its first tick.
C18_Witness ==
  /\ started
  /\ pc = "crawl"
  /\ idx > 1
  /\ cycles = 2
  /\ publishes = 1
  /\ ~tickPending

\* C19: an Invoke reads the cache in its first step and in no other: the
\* list it walks is the topic's list in the cache of that moment and stays
\* the same through every Refresh that follows, and the functions called so
\* far are always the first ones of that list, in its order.
C19_ListReadOnce ==
  [][ /\ invokes' = invokes + 1 =>
           caller'.functions = GetCachedValues(cache, caller'.topic)
      /\ invokes' = invokes =>
           /\ caller'.functions = caller.functions
           /\ caller'.topic = caller.topic
      /\ Len(caller'.calls) <= Len(caller'.functions)
      /\ \A k \in 1..Len(caller'.calls) : caller'.calls[k] = caller'.functions[k] ]_vars

\* An Invoke still in progress has called both functions of the list it
\* read; a Refresh since that read left a cache whose list for the topic
\* holds other functions, none of them called and none of the called ones
\* in it.
C19_Witness ==
  /\ caller.pc = "waiting"
  /\ publishes > caller.at.publishes
  /\ Len(caller.functions) = 2
  /\ caller.calls = caller.functions
  /\ GetCachedValues(cache, caller.topic) # <<>>
  /\ Range(GetCachedValues(cache, caller.topic)) \cap Range(caller.calls) = {}

\* The number of commas in a value, and the start of its n-th entry.
Commas(v) == Cardinality({ k \in 1..Len(v) : v[k] = "," })
NthStart(v, n) ==
  CHOOSE a \in EntryStarts(v) : Cardinality({ b \in EntryStarts(v) : b < a }) = n - 1

\* C20: for a function found with a "topic" annotation of value v, the
\* crawl appends commas(v) + 1 associations, the n-th under the n-th entry
\* of v as written, all with the function's identifier; so a topic's list
\* holds the identifier once per entry equal to that topic, and an empty
\* value, a leading or trailing comma and two adjacent commas each give an
\* association under the empty topic.
C20_OneAssociationPerEntry ==
  (Len(fnCalls) = 1 /\ ~fnCalls[1].err) =>
    LET fn == fnCalls[1].val[1]
        v == TopicValue(fn)
        id == Qualified(fn.Name, fnCalls[1].ns)
        emptyEntry == \/ v = <<>>
                      \/ v[1] = ","
                      \/ v[Len(v)] = ","
                      \/ \E k \in 1..(Len(v) - 1) : v[k] = "," /\ v[k + 1] = ","
    IN /\ Len(appended) = Commas(v) + 1
       /\ \A n \in 1..Len(appended) :
            appended[n] = [topic |-> EntryAt(v, NthStart(v, n)), id |-> id]
       /\ DOMAIN builder = Entries(v)
       /\ \A t \in DOMAIN builder :
            /\ Range(builder[t]) = { id }
            /\ Len(builder[t]) = Cardinality({ a \in EntryStarts(v) : EntryAt(v, a) = t })
       /\ emptyEntry => <<>> \in DOMAIN builder
       /\ pc = "select" => cache = builder

\* The value ",a," has been crawled and published: f.p twice under the empty
\* topic, for the leading and the trailing comma, and once under a.
C20_Witness ==
  /\ pc = "select"
  /\ Len(fnCalls) = 1
  /\ ~fnCalls[1].err
  /\ TopicValue(fnCalls[1].val[1]) = <<",", "a", ",">>
  /\ DOMAIN cache = { <<>>, <<"a">> }
  /\ cache[<<>>] = << <<"f", ".", "p">>, <<"f", ".", "p">> >>
  /\ cache[<<"a">>] = << <<"f", ".", "p">> >>

====
